---- MODULE Spec2Model ----
(***************************************************************************)
(* Model of the debug-plotter crate (src/src/lib.rs): the thread-local     *)
(* registry PLOTS, the expansion of the plot! macro at a call site, the    *)
(* PlotWrapper / Plot records it keeps, and the Drop of the registry.      *)
(*                                                                         *)
(* Conventions                                                             *)
(*  - Option<T> is a sequence of length <= 1: None == <<>>, Some(v) ==     *)
(*    <<v>>.  String is a sequence of one-character strings.               *)
(*  - f64 samples are integers; f64::MAX and f64::MIN are the stand-ins    *)
(*    F64Max and F64Min, larger in magnitude than every sample drawn.      *)
(*  - The crate is modelled as built with the "live" feature (the Options  *)
(*    field `live` exists); a build without it behaves as one in which no  *)
(*    call site sets `live`.                                               *)
(*  - A panic leaves the macro by unwinding into the calling thread.  No   *)
(*    code of the crate catches it, so the thread stops invoking call      *)
(*    sites (unwinding[t]) and the only step left to it is the destructor  *)
(*    of its thread-local registry.                                        *)
(***************************************************************************)
EXTENDS Integers, Sequences, FiniteSets, TLC

\* ---------------------------------------------------------------- bounds
\* invocations one thread makes in all (registry specification)
MaxCalls == 2
\* largest sample value drawn (registry specification)
MaxVal == 2
\* largest `values` window a call site configures
MaxWindow == 3
\* invocations of the single call site (series specification)
SeriesCalls == 5
\* largest sample value drawn (series specification)
SeriesVal == 5

\* invocations one thread makes in all (live specification)
LiveCalls == 3

\* invocations each thread makes (threads specification)
ThreadCalls == 2

\* ------------------------------------------------------------- f64 range
F64Max == 1000
F64Min == -F64Max

\* ---------------------------------------------------------------- Option
None == <<>>
Some(v) == <<v>>
IsSome(o) == o # <<>>
Unwrap(o) == o[1]
UnwrapOr(o, d) == IF o = <<>> THEN d ELSE o[1]

\* --------------------------------------------------------------- threads
Threads == {"t1", "t2"}
MainThread == "t1"

\* ------------------------------------------------------------- locations
\* file!() of the instrumented program: "s/m" stands for "src/main.rs"
SrcFile == <<"s", "/", "m">>

\* three call sites of the instrumented program:
\*   L1:  plot!(a where ...)
\*   L2:  plot!(a, b where ...)
\*   L3:  plot!((x, c) as "C" where ...)
L1 == [file |-> SrcFile, line |-> 1, column |-> 5]
L2 == [file |-> SrcFile, line |-> 2, column |-> 5]
L3 == [file |-> SrcFile, line |-> 2, column |-> 9]
Locations == {L1, L2, L3}

\* the series a call site declares, in order: a bare variable or a pair,
\* optionally renamed with `as`
Site(l) ==
    CASE l = L1 -> << [kind |-> "var", ident |-> <<"a">>, as |-> None] >>
      [] l = L2 -> << [kind |-> "var", ident |-> <<"a">>, as |-> None],
                      [kind |-> "var", ident |-> <<"b">>, as |-> None] >>
      [] l = L3 -> << [kind |-> "pair", ident |-> <<"c">>, as |-> Some(<<"C">>)] >>

\* #[derive(Hash, PartialEq, Eq)] on Location: the key is all three fields
KeyNoLine(l) == <<l.file, l.column>>
Key(l) == <<l.file, l.line, l.column>>

Keys == {Key(l) : l \in Locations}

\* ---------------------------------------------------------------- strings
DigitChar(d) == <<"0", "1", "2", "3", "4", "5", "6", "7", "8", "9">>[d + 1]

RECURSIVE Dec(_)
\* decimal formatting of u32
Dec(n) == IF n < 10 THEN <<DigitChar(n)>>
          ELSE Dec(n \div 10) \o <<DigitChar(n % 10)>>

\* impl fmt::Display for Location: "{file}:{line}:{column}"
LocationFmt(l) == l.file \o <<":">> \o Dec(l.line) \o <<":">> \o Dec(l.column)

\* str::replace with a one-character pattern: every match is replaced
ReplaceFirst(s, from, to) ==
    IF \E i \in 1..Len(s) : s[i] = from
    THEN LET i == CHOOSE n \in 1..Len(s) :
                      s[n] = from /\ \A m \in 1..(n - 1) : s[m] # from
         IN [s EXCEPT ![i] = to]
    ELSE s
Replace(s, from, to) == [i \in 1..Len(s) |-> IF s[i] = from THEN to ELSE s[i]]

\* ---------------------------------------------------------------- Options
DefaultOptions ==
    [caption |-> None, size |-> None, x_desc |-> None, y_desc |-> None,
     path |-> None, x_range |-> None, y_range |-> None, values |-> None,
     live |-> None]

Range(a, b) == [start |-> a, end |-> b]

\* the option lists a call site may be written with
OptionChoices ==
    { DefaultOptions,
      [DefaultOptions EXCEPT !.values = Some(0)],
      [DefaultOptions EXCEPT !.values = Some(1),
                             !.x_range = Some(Range(0, 9)),
                             !.y_range = Some(Range(0, 9))],
      [DefaultOptions EXCEPT !.live = Some(TRUE)],
      [DefaultOptions EXCEPT !.live = Some(FALSE),
                             !.values = Some(1),
                             !.caption = Some(<<"a", " ", "/", " ", "b">>),
                             !.size = Some(<<4, 3>>),
                             !.x_desc = Some(<<"x">>)],
      [DefaultOptions EXCEPT !.path = Some(<<>>)],
      [DefaultOptions EXCEPT !.x_range = Some(Range(9, 0))] }

\* the names array the macro builds: stringify!($variable), stringify!($y),
\* then the `as` literal shadows it
NameOf(s) == IF IsSome(s.as) THEN Unwrap(s.as) ELSE s.ident
Names(l) == [i \in 1..Len(Site(l)) |-> NameOf(Site(l)[i])]

\* ------------------------------------------------------------------- Plot
\* Plot::new
PlotNew(names, options) ==
    [values |-> [i \in 1..Len(names) |-> <<>>],
     names |-> names,
     iteration |-> 0,
     options |-> options]

\* VecDeque::pop_front: nothing to do on an empty deque
PopFront(s) == IF s = <<>> THEN s ELSE Tail(s)

\* one turn of the loop of Plot::insert, on series i
InsertOne(plot, i, value) ==
    LET cur == plot.values[i]
        kept == IF IsSome(plot.options.values)
                   /\ Len(cur) = Unwrap(plot.options.values)
                THEN PopFront(cur) ELSE cur
    IN Append(kept, value)

\* Plot::insert: every series takes its value, then one increment
IterationAfter(plot, values) == plot.iteration + 1
PlotInsertReversed(plot, values) ==
    [plot EXCEPT
        !.values = [i \in 1..Len(plot.values) |->
                       InsertOne(plot, Len(plot.values) + 1 - i,
                                 values[Len(plot.values) + 1 - i])],
        !.iteration = IterationAfter(plot, values)]
PlotInsert(plot, values) ==
    [plot EXCEPT
        !.values = [i \in 1..Len(plot.values) |-> InsertOne(plot, i, values[i])],
        !.iteration = IterationAfter(plot, values)]

RECURSIVE Flatten(_)
\* .iter().map(..).flatten(): the samples of all series, series after series
Flatten(vs) == IF vs = <<>> THEN <<>> ELSE Head(vs) \o Flatten(Tail(vs))

RECURSIVE FoldMin(_, _)
\* fold(acc, |acc, &val| if val < acc { val } else { acc })
FoldMin(s, acc) ==
    IF s = <<>> THEN acc
    ELSE FoldMin(Tail(s), IF Head(s) < acc THEN Head(s) ELSE acc)

RECURSIVE FoldMax(_, _)
\* fold(acc, |acc, &val| if val > acc { val } else { acc })
FoldMax(s, acc) ==
    IF s = <<>> THEN acc
    ELSE FoldMax(Tail(s), IF Head(s) > acc THEN Head(s) ELSE acc)

Xs(s) == [i \in 1..Len(s) |-> s[i][1]]
Ys(s) == [i \in 1..Len(s) |-> s[i][2]]

x_min(plot) == FoldMin(Xs(Flatten(plot.values)), F64Max)
x_max(plot) == FoldMax(Xs(Flatten(plot.values)), F64Min)
y_min(plot) == FoldMin(Ys(Flatten(plot.values)), F64Max)
y_max_first(plot) ==
    FoldMax(Ys(IF plot.values = <<>> THEN <<>> ELSE plot.values[1]), F64Min)
y_max(plot) == FoldMax(Ys(Flatten(plot.values)), F64Min)

\* the ranges Plot::plot hands to build_cartesian_2d
XRange(plot) == UnwrapOr(plot.options.x_range, Range(x_min(plot), x_max(plot)))
YRange(plot) == UnwrapOr(plot.options.y_range, Range(y_min(plot), y_max(plot)))

RECURSIVE Gcd(_, _)
Gcd(a, b) == IF b = 0 THEN a ELSE Gcd(b, a % b)

\* HSLColor(i as f64 / names.len() as f64, 1.0, 0.5): the hue is the
\* fraction i / n in lowest terms, saturation and lightness in tenths
HSLColorTruncated(i, n) == [h |-> <<i \div n, 1>>, s |-> 10, l |-> 5]
HSLColor(i, n) ==
    LET g == Gcd(i, n) IN [h |-> <<i \div g, n \div g>>, s |-> 10, l |-> 5]

\* what Plot::plot draws on a backend
Chart(plot) ==
    [caption |-> Unwrap(plot.options.caption),
     x_range |-> XRange(plot),
     y_range |-> YRange(plot),
     x_desc |-> plot.options.x_desc,
     y_desc |-> plot.options.y_desc,
     series |-> [i \in 1..Len(plot.names) |->
                    [label |-> plot.names[i],
                     color |-> HSLColor(i - 1, Len(plot.names)),
                     points |-> plot.values[i]]]]

\* Path::parent is None for the empty path and for a root
ParentIsNone(path) == \A i \in 1..Len(path) : path[i] = "/"

DefaultSize == <<640, 480>>

\* one call of Plot::plot_to_file: the file it is to write, and whether it
\* returned (written) or panicked
FileOf(plot, written) ==
    [path |-> Unwrap(plot.options.path),
     size |-> UnwrapOr(plot.options.size, DefaultSize),
     chart |-> Chart(plot),
     written |-> written]

\* ------------------------------------------------------------ PlotWrapper
\* PlotWrapper::new, the window built
PlotWrapperNew(names, location, options) ==
    LET default_caption == LocationFmt(location)
        caption == UnwrapOr(options.caption, default_caption)
        default_path == <<"p", "l", "o", "t", "s", "/">>
                        \o Replace(Replace(caption, "/", "-"), " ", "_")
                        \o <<".", "p", "n", "g">>
        path == UnwrapOr(options.path, default_path)
        resolved == [options EXCEPT !.caption = Some(caption), !.path = Some(path)]
        live == UnwrapOr(resolved.live, FALSE)
    IN [plot |-> PlotNew(names, resolved),
        window |-> IF live THEN "open" ELSE "none",
        live |-> live]

\* ------------------------------------------------------------------ state
VARIABLES
    plots,      \* plots[t]: the HashMap of thread t's PLOTS, Key -> PlotWrapper
    phase,      \* phase[t]: "uninit" (PLOTS untouched), "alive", "dead" (dropped)
    unwinding,  \* unwinding[t]: a panic has left a macro invocation of t
    panics,     \* panics[t]: what has panicked in t so far
    calls,      \* calls[t][l]: invocations of call site l begun by t
    builds,     \* builds[t][l]: runs of the or_insert_with closure of l
    given,      \* given[t][l]: the Options the closure of l was run with
    log,        \* log[t][l]: the calls of PlotWrapper::insert, in order
    frames,     \* frames[t][k]: the calls of draw_piston_window on record k
    renders,    \* renders[t][k]: the calls of Plot::plot_to_file on record k
    closed      \* closed[t]: the records of t whose window the user has closed

vars == <<plots, phase, unwinding, panics, calls, builds, given, log, frames, renders,
          closed>>

EmptyMap == [k \in {} |-> 0]

Init ==
    /\ plots = [t \in Threads |-> EmptyMap]
    /\ phase = [t \in Threads |-> "uninit"]
    /\ unwinding = [t \in Threads |-> FALSE]
    /\ panics = [t \in Threads |-> {}]
    /\ calls = [t \in Threads |-> [l \in Locations |-> 0]]
    /\ builds = [t \in Threads |-> [l \in Locations |-> 0]]
    /\ given = [t \in Threads |-> [l \in Locations |-> None]]
    /\ log = [t \in Threads |-> [l \in Locations |-> <<>>]]
    /\ frames = [t \in Threads |-> [k \in Keys |-> <<>>]]
    /\ renders = [t \in Threads |-> [k \in Keys |-> <<>>]]
    /\ closed = [t \in Threads |-> {}]

\* thread_local! PLOTS: PLOTS.with hands every thread a registry of its own
PLOTSStatic(t) == MainThread
PLOTS(t) == t

\* ------------------------------------------------------------ invocation
\* what ToPrimitive::to_f64 returns for the values of the instrumented
\* program: None, or Some of a sample
Inputs(vals) == {None} \cup {Some(v) : v \in vals}

\* the arguments of one invocation of l: one y for a bare variable, an x and
\* a y for a pair
SeriesArgs(s, vals) ==
    [x : IF s.kind = "var" THEN {None} ELSE Inputs(vals), y : Inputs(vals)]
ArgsOf(l, vals) ==
    IF Len(Site(l)) = 1
    THEN {<<a>> : a \in SeriesArgs(Site(l)[1], vals)}
    ELSE {<<a, b>> : a \in SeriesArgs(Site(l)[1], vals),
                     b \in SeriesArgs(Site(l)[2], vals)}

\* Plottable::to_plot_type: to_f64().unwrap()
Coerces(l, args) ==
    \A i \in 1..Len(Site(l)) :
        /\ IsSome(args[i].y)
        /\ Site(l)[i].kind = "pair" => IsSome(args[i].x)

\* the array the macro passes to insert
XAfterIncrement(iteration, s, arg) ==
    IF s.kind = "var" THEN iteration + 1 ELSE Unwrap(arg.x)
XOf(iteration, s, arg) ==
    IF s.kind = "var" THEN iteration ELSE Unwrap(arg.x)
ValuesOf(l, iteration, args) ==
    [i \in 1..Len(Site(l)) |->
        <<XOf(iteration, Site(l)[i], args[i]), Unwrap(args[i].y)>>]

TotalCalls(t) == calls[t][L1] + calls[t][L2] + calls[t][L3]

\* entry(location).or_insert_with(builder): the stored record when there is
\* one, else the record the builder makes
RebuildAlways(map, l, opts) == PlotWrapperNew(Names(l), l, opts)
EntryOrInsertWith(map, l, opts) ==
    IF Key(l) \in DOMAIN map THEN map[Key(l)]
    ELSE PlotWrapperNew(Names(l), l, opts)

\* one call of draw_piston_window by plot_to_window: the chart it is to draw,
\* and whether it returned Some (drawn) or the unwrap panicked
FrameOf(plot, drawn) == [chart |-> Chart(plot), drawn |-> drawn]

\* PlotWrapper::insert: Plot::insert, then plot_to_window, which draws the
\* plot when the record has a window.  The record after the call, and the
\* plots handed to draw_piston_window
PlotWrapperInsertDrawFirst(w, values) ==
    [wrapper |-> [w EXCEPT !.plot = PlotInsert(w.plot, values)],
     window |-> IF w.window # "none" THEN <<w.plot>> ELSE <<>>]
PlotWrapperInsert(w, values) ==
    LET plot == PlotInsert(w.plot, values)
    IN [wrapper |-> [w EXCEPT !.plot = plot],
        window |-> IF w.window # "none" THEN <<plot>> ELSE <<>>]

\* One expansion of plot! at call site l by thread t.  winOk: the window of a
\* live record can be built; drawOk: draw_piston_window returns Some and
\* Plot::plot Ok.  A closed window has no next event: draw_piston_window
\* returns None.
Invoke(t, l, args, opts) ==
    LET k == Key(l)
        r == PLOTS(t)
        absent == k \notin DOMAIN plots[r]
        wrapper == EntryOrInsertWith(plots[r], l, opts)
        map == IF absent THEN plots[r] @@ (k :> wrapper) ELSE plots[r]
        iteration == wrapper.plot.iteration
        values == ValuesOf(l, iteration, args)
        call == PlotWrapperInsert(wrapper, values)
        inserted == call.wrapper
    IN \E winOk \in IF absent /\ wrapper.live THEN BOOLEAN ELSE {TRUE} :
       \E drawOk \in IF wrapper.window # "none" /\ winOk /\ Coerces(l, args)
                      THEN (IF k \in closed[t] THEN {FALSE} ELSE BOOLEAN)
                      ELSE {TRUE} :
       /\ phase[t] # "dead"
       /\ ~unwinding[t]
       /\ phase' = [phase EXCEPT ![t] = "alive"]
       /\ calls' = [calls EXCEPT ![t][l] = @ + 1]
       /\ builds' = [builds EXCEPT ![t][l] = IF absent THEN @ + 1 ELSE @]
       /\ given' = [given EXCEPT ![t][l] = IF absent THEN Some(opts) ELSE @]
       /\ UNCHANGED <<renders, closed>>
       /\ IF ~winOk
          THEN \* WindowSettings::build().unwrap() inside the closure
               /\ unwinding' = [unwinding EXCEPT ![t] = TRUE]
               /\ panics' = [panics EXCEPT ![t] = @ \cup {"window"}]
               /\ UNCHANGED <<plots, log, frames>>
          ELSE IF ~Coerces(l, args)
          THEN \* to_f64().unwrap() while the array is evaluated
               /\ plots' = [plots EXCEPT ![r] = map]
               /\ unwinding' = [unwinding EXCEPT ![t] = TRUE]
               /\ panics' = [panics EXCEPT ![t] = @ \cup {"coercion"}]
               /\ UNCHANGED <<log, frames>>
          ELSE /\ plots' = [plots EXCEPT ![r] = [map EXCEPT ![k] = inserted]]
               /\ log' = [log EXCEPT ![t][l] =
                              Append(@, [args |-> args, values |-> values])]
               /\ frames' = [frames EXCEPT ![t][k] =
                      @ \o [n \in 1..Len(call.window) |->
                                FrameOf(call.window[n], drawOk)]]
               /\ IF ~drawOk
                  THEN /\ unwinding' = [unwinding EXCEPT ![t] = TRUE]
                       /\ panics' = [panics EXCEPT ![t] = @ \cup {"draw"}]
                  ELSE UNCHANGED <<unwinding, panics>>

\* ---------------------------------------------------------------- teardown
\* the orders in which HashMap::iter may visit the keys
Orders(S) ==
    {o \in [1..Cardinality(S) -> S] : \A i, j \in 1..Cardinality(S) : o[i] = o[j] => i = j}

\* Plot::plot_to_file panics: path.parent().unwrap(), or create_dir_all or
\* the drawing fails (ioFail: the records for which they do)
RenderFails(w, k, ioFail) ==
    ParentIsNone(Unwrap(w.plot.options.path)) \/ k \in ioFail

RECURSIVE DropLoop(_, _, _, _)
\* the loop of Drop::drop over order, from the calls made so far:
\* PlotWrapper::plot_to_file does nothing for a live record; a panic of
\* Plot::plot_to_file ends the loop
DropLoop(map, order, ioFail, done) ==
    IF order = <<>> THEN [renders |-> done, panicked |-> FALSE]
    ELSE LET k == Head(order)
             w == map[k]
         IN IF w.live THEN DropLoop(map, Tail(order), ioFail, done)
            ELSE IF RenderFails(w, k, ioFail)
            THEN [renders |-> [done EXCEPT ![k] = Append(@, FileOf(w.plot, FALSE))],
                  panicked |-> TRUE]
            ELSE DropLoop(map, Tail(order), ioFail,
                          [done EXCEPT ![k] = Append(@, FileOf(w.plot, TRUE))])

\* impl Drop for Plots, run when thread t ends: the destructor of an
\* initialized thread-local runs once, and PLOTS.with fails from then on
TeardownRepeatable(t, order, ioFail) ==
    LET r == DropLoop(plots[t], order, ioFail, renders[t])
    IN /\ phase[t] = "alive"
       /\ renders' = [renders EXCEPT ![t] = r.renders]
       /\ panics' = [panics EXCEPT ![t] = IF r.panicked THEN @ \cup {"file"} ELSE @]
       /\ UNCHANGED <<plots, phase, unwinding, calls, builds, given, log, frames, closed>>
Teardown(t, order, ioFail) ==
    LET r == DropLoop(plots[PLOTS(t)], order, ioFail, renders[t])
    IN /\ phase[t] = "alive"
       /\ phase' = [phase EXCEPT ![t] = "dead"]
       /\ renders' = [renders EXCEPT ![t] = r.renders]
       /\ panics' = [panics EXCEPT ![t] = IF r.panicked THEN @ \cup {"file"} ELSE @]
       /\ UNCHANGED <<plots, unwinding, calls, builds, given, log, frames, closed>>

\* ---------------------------------------------------------- specifications
\* the registry specification: one thread, the call sites L1 and L2
InvokeAny ==
    \E l \in {L1, L2} :
    \E args \in ArgsOf(l, 1..MaxVal) :
    \E opts \in OptionChoices :
        /\ TotalCalls(MainThread) < MaxCalls
        /\ Invoke(MainThread, l, args, opts)

DropPlots ==
    \E order \in Orders(DOMAIN plots[MainThread]) :
    \E ioFail \in SUBSET (DOMAIN plots[MainThread]) :
        Teardown(MainThread, order, ioFail)

Next == InvokeAny \/ DropPlots

Spec == Init /\ [][Next]_vars

\* the series specification: one thread running a program with a single
\* call site: L1 invoked many times, or L3
SeriesOptions == {DefaultOptions, [DefaultOptions EXCEPT !.values = Some(MaxWindow)]}

InvokeSeries ==
    \E l \in {L1, L3} :
    \E args \in ArgsOf(l, IF l = L1 THEN 1..SeriesVal ELSE 1..MaxVal) :
    \E opts \in SeriesOptions :
        /\ TotalCalls(MainThread) < (IF l = L1 THEN SeriesCalls ELSE MaxCalls)
        /\ TotalCalls(MainThread) = calls[MainThread][l]
        /\ Invoke(MainThread, l, args, opts)

NextSeries == InvokeSeries \/ DropPlots

SpecSeries == Init /\ [][NextSeries]_vars

\* the user closes the window of the live record k of thread t
CloseWindow(t, k) ==
    /\ phase[t] = "alive"
    /\ k \in DOMAIN plots[t]
    /\ plots[t][k].window = "open"
    /\ k \notin closed[t]
    /\ closed' = [closed EXCEPT ![t] = @ \cup {k}]
    /\ UNCHANGED <<plots, phase, unwinding, panics, calls, builds, given, log, frames,
                   renders>>

\* the live specification: one thread running a program with the call site
\* L1, its record live or not, and a user who may close the window
LiveOptions == {DefaultOptions, [DefaultOptions EXCEPT !.live = Some(TRUE)]}

InvokeLive ==
    \E l \in {L1} :
    \E args \in ArgsOf(l, 1..MaxVal) :
    \E opts \in LiveOptions :
        /\ TotalCalls(MainThread) < LiveCalls
        /\ Invoke(MainThread, l, args, opts)

CloseAny == \E k \in Keys : CloseWindow(MainThread, k)

NextLive == InvokeLive \/ CloseAny \/ DropPlots

SpecLive == Init /\ [][NextLive]_vars

\* the threads specification: two threads running the call site L1, each
\* with samples of its own, in any interleaving
ValsOf(t) == IF t = MainThread THEN 1..MaxVal ELSE {10 + v : v \in 1..MaxVal}

InvokeThread ==
    \E t \in Threads :
    \E args \in ArgsOf(L1, ValsOf(t)) :
    \E opts \in SeriesOptions :
        /\ calls[t][L1] < ThreadCalls
        /\ Invoke(t, L1, args, opts)

DropThread ==
    \E t \in Threads :
    \E order \in Orders(DOMAIN plots[PLOTS(t)]) :
    \E ioFail \in SUBSET (DOMAIN plots[PLOTS(t)]) :
        Teardown(t, order, ioFail)

NextThreads == InvokeThread \/ DropThread

SpecThreads == Init /\ [][NextThreads]_vars

\* ------------------------------------------------------------------ claims
ResidentAt(t, l) == Key(l) \in DOMAIN plots[t]
Rec(t, l) == plots[t][Key(l)]

\* the pairs the calls of insert at l gave series i, in order
Inserted(t, l, i) == [n \in 1..Len(log[t][l]) |-> log[t][l][n].values[i]]

LastN(s, n) == SubSeq(s, Len(s) - n + 1, Len(s))

Min2(a, b) == IF a < b THEN a ELSE b

\* the coordinates (c = 1 for x, 2 for y) of the samples a plot buffers
Buffered(plot, c) ==
    UNION {{plot.values[i][j][c] : j \in 1..Len(plot.values[i])} :
              i \in 1..Len(plot.values)}
SetMin(S) == CHOOSE m \in S : \A e \in S : m <= e
SetMax(S) == CHOOSE m \in S : \A e \in S : m >= e

\* C1: with a window W each series buffer holds exactly min(N, W) pairs, the
\* last min(N, W) of the N inserted, in order; with no window it holds all N.
C1_WindowKeepsLast ==
    \A t \in Threads, l \in Locations :
        ResidentAt(t, l) =>
            LET p == Rec(t, l).plot
                N == Len(log[t][l])
            IN \A i \in 1..Len(p.values) :
                IF IsSome(p.options.values)
                THEN LET W == Unwrap(p.options.values)
                     IN /\ Len(p.values[i]) = Min2(N, W)
                        /\ p.values[i] = LastN(Inserted(t, l, i), Min2(N, W))
                ELSE p.values[i] = Inserted(t, l, i)

\* C2: once the registry is dropped, Plot::plot_to_file has been called
\* exactly once, on the resolved path, for every record that is not live, and
\* never for a live record.
C2_TeardownRendersOnce ==
    \A t \in Threads :
        phase[t] = "dead" =>
            \A k \in DOMAIN plots[t] :
                IF plots[t][k].live THEN renders[t][k] = <<>>
                ELSE /\ Len(renders[t][k]) = 1
                     /\ renders[t][k][1].path = Unwrap(plots[t][k].plot.options.path)

\* C3: when the rendering of one record fails during the drop, every other
\* record that is not live is rendered all the same.
C3_RenderFailureIsolated ==
    \A t \in Threads :
        \A k \in DOMAIN plots[t] :
            (renders[t][k] # <<>> /\ ~renders[t][k][1].written) =>
                \A o \in DOMAIN plots[t] \ {k} :
                    ~plots[t][o].live => renders[t][o] # <<>>

\* C4: after K invocations of a call site the iteration counter of its
\* record is K.
C4_CounterCountsInvocations ==
    \A t \in Threads, l \in Locations :
        ResidentAt(t, l) => Rec(t, l).plot.iteration = calls[t][l]

IsSuffix(s, full) == Len(s) <= Len(full) /\ s = LastN(full, Len(s))

\* C5: the registry keys records on the location: two call sites never share
\* a record even when their variable names agree, a record holds the names
\* of its own call site and what the invocations of that call site inserted,
\* and an invocation at one location leaves every other record as it was.
C5_KeyedOnLocation ==
    /\ [](\A t \in Threads, l \in Locations :
            ResidentAt(t, l) =>
                /\ Rec(t, l).plot.names = Names(l)
                /\ Rec(t, l).plot.iteration = Len(log[t][l])
                /\ \A i \in 1..Len(Site(l)) :
                       IsSuffix(Rec(t, l).plot.values[i], Inserted(t, l, i)))
    /\ [][\A t \in Threads, l \in Locations :
            calls'[t][l] = calls[t][l] =>
                /\ (Key(l) \in DOMAIN plots'[t]) = (Key(l) \in DOMAIN plots[t])
                /\ Key(l) \in DOMAIN plots[t] =>
                       plots'[t][Key(l)] = plots[t][Key(l)]]_vars

\* two call sites that both declare a variable `a`, each with its own record
C5_Witness ==
    /\ ResidentAt(MainThread, L1) /\ ResidentAt(MainThread, L2)
    /\ Names(L1)[1] = Names(L2)[1]
    /\ log[MainThread][L1] # <<>> /\ log[MainThread][L2] # <<>>

\* C6: the builder runs at most once per location, a resident record keeps
\* the names and options it was built with whatever options a later
\* invocation supplies, and no entry leaves the registry or is replaced.
C6_BuiltOnce ==
    /\ [](\A t \in Threads, l \in Locations :
            /\ builds[t][l] <= 1
            /\ ResidentAt(t, l) => builds[t][l] = 1)
    /\ [][\A t \in Threads : \A k \in DOMAIN plots[t] :
            /\ k \in DOMAIN plots'[t]
            /\ plots'[t][k].plot.names = plots[t][k].plot.names
            /\ plots'[t][k].plot.options = plots[t][k].plot.options
            /\ plots'[t][k].live = plots[t][k].live
            /\ plots'[t][k].plot.iteration >= plots[t][k].plot.iteration]_vars

\* a call site invoked twice, its record built by the first invocation
C6_Witness ==
    \E l \in Locations :
        /\ calls[MainThread][l] = 2
        /\ builds[MainThread][l] = 1
        /\ ResidentAt(MainThread, l)
        /\ Rec(MainThread, l).plot.iteration = 2

\* the scenario of C7: window 3, the samples y = 1, 2, 3, 4, 5 at L1
Scenario(t) ==
    /\ ResidentAt(t, L1)
    /\ Rec(t, L1).plot.options.values = Some(3)
    /\ Ys(Inserted(t, L1, 1)) = <<1, 2, 3, 4, 5>>

\* C7: for a bare variable the x stored by an invocation is the iteration
\* counter before the increment of that invocation (0 for the first point),
\* for a pair it is the first element supplied; and in the scenario the buffer
\* ends as [(2,3),(3,4),(4,5)] with min_y 3, max_y 5 and counter 5.
C7_XConvention ==
    \A t \in Threads :
        /\ \A l \in Locations :
              ResidentAt(t, l) =>
                /\ Rec(t, l).plot.iteration = Len(log[t][l])
                /\ \A n \in 1..Len(log[t][l]), i \in 1..Len(Site(l)) :
                      LET e == log[t][l][n]
                      IN /\ e.values[i][1] =
                              IF Site(l)[i].kind = "var" THEN n - 1
                              ELSE Unwrap(e.args[i].x)
                         /\ e.values[i][2] = Unwrap(e.args[i].y)
                /\ \A i \in 1..Len(Site(l)) :
                      IsSuffix(Rec(t, l).plot.values[i], Inserted(t, l, i))
        /\ Scenario(t) =>
              /\ Rec(t, L1).plot.values = << <<<<2, 3>>, <<3, 4>>, <<4, 5>>>> >>
              /\ y_min(Rec(t, L1).plot) = 3
              /\ y_max(Rec(t, L1).plot) = 5
              /\ Rec(t, L1).plot.iteration = 5

\* the scenario has run
C7_Witness == Scenario(MainThread) /\ Len(Rec(MainThread, L1).plot.values[1]) = 3

\* the range of coordinate c a record is rendered with
RenderRange(plot, c) == IF c = 1 THEN XRange(plot) ELSE YRange(plot)
ExplicitRange(plot, c) == IF c = 1 THEN plot.options.x_range ELSE plot.options.y_range

\* C8: on each axis a record is rendered with the explicit range when one is
\* set, and else with [minimum, maximum] of that coordinate over the samples
\* its series buffer now.
C8_AxisRange ==
    \A t \in Threads : \A k \in DOMAIN plots[t] : \A c \in {1, 2} :
        LET p == plots[t][k].plot
        IN IF IsSome(ExplicitRange(p, c))
           THEN RenderRange(p, c) = Unwrap(ExplicitRange(p, c))
           ELSE Buffered(p, c) # {} =>
                    RenderRange(p, c) =
                        Range(SetMin(Buffered(p, c)), SetMax(Buffered(p, c)))

\* two series, no explicit range, a window of 1 that has evicted the first
\* sample of each: the x range starts at the iteration of the second
C8_Witness ==
    /\ ResidentAt(MainThread, L2)
    /\ LET p == Rec(MainThread, L2).plot
       IN /\ p.options.values = Some(1)
          /\ p.options.x_range = None /\ p.options.y_range = None
          /\ Len(log[MainThread][L2]) = 2
          /\ XRange(p) = Range(1, 1)
          /\ YRange(p).start < YRange(p).end

\* C9: a record whose buffers are all empty, with no explicit range, is
\* rendered with a degenerate range on each axis: the lower bound equals the
\* upper bound, it is never greater.
C9_EmptyRangeDegenerate ==
    \A t \in Threads : \A k \in DOMAIN plots[t] :
        \A n \in 1..Len(renders[t][k]) :
            LET r == renders[t][k][n]
                o == plots[t][k].plot.options
            IN (/\ \A i \in 1..Len(r.chart.series) : r.chart.series[i].points = <<>>
                /\ o.x_range = None /\ o.y_range = None) =>
                    /\ r.chart.x_range.start = r.chart.x_range.end
                    /\ r.chart.y_range.start = r.chart.y_range.end

\* C10: no failure inside an invocation or inside the drop of the registry
\* unwinds into the instrumented program.
C10_NoPanicEscapes ==
    \A t \in Threads : panics[t] = {} /\ ~unwinding[t]

\* C11: once the window of a live record has been closed, a later invocation
\* of its call site that inserts its samples returns normally: it does not
\* panic.
C11_ClosedWindowNotFatal ==
    [][\A t \in Threads : \A l \in Locations :
        (Key(l) \in closed[t] /\ log'[t][l] # log[t][l]) => ~unwinding'[t]]_vars

\* the caption with its path separators and spaces replaced, character by
\* character
Sanitized(caption) ==
    [i \in 1..Len(caption) |->
        CASE caption[i] = "/" -> "-"
          [] caption[i] = " " -> "_"
          [] OTHER -> caption[i]]

\* C12: every resident record has its caption and its path set, resolved from
\* the options its call site was built with: the caption is the explicit one
\* or else "<file>:<line>:<column>", the path the explicit one or else
\* "plots/<caption>.png" with every "/" and every space of the caption
\* replaced; neither changes while the record is resident; and every render
\* to a file uses that path and the explicit size or else 640x480.
C12_CaptionPathResolvedOnce ==
    /\ [](\A t \in Threads, l \in Locations :
            ResidentAt(t, l) =>
                LET o == Rec(t, l).plot.options
                    g == Unwrap(given[t][l])
                    caption == IF IsSome(g.caption) THEN Unwrap(g.caption)
                               ELSE l.file \o <<":">> \o Dec(l.line)
                                           \o <<":">> \o Dec(l.column)
                    path == IF IsSome(g.path) THEN Unwrap(g.path)
                            ELSE <<"p", "l", "o", "t", "s", "/">>
                                 \o Sanitized(caption) \o <<".", "p", "n", "g">>
                IN /\ IsSome(given[t][l])
                   /\ o.caption = Some(caption)
                   /\ o.path = Some(path)
                   /\ \A n \in 1..Len(renders[t][Key(l)]) :
                          LET r == renders[t][Key(l)][n]
                          IN /\ r.path = path
                             /\ r.chart.caption = caption
                             /\ r.size = IF IsSome(g.size) THEN Unwrap(g.size)
                                         ELSE <<640, 480>>)
    /\ [][\A t \in Threads : \A k \in DOMAIN plots[t] :
            /\ k \in DOMAIN plots'[t]
            /\ plots'[t][k].plot.options.caption = plots[t][k].plot.options.caption
            /\ plots'[t][k].plot.options.path = plots[t][k].plot.options.path]_vars

\* a record with the default caption and path and no size, dropped and
\* rendered at 640x480 to plots/s-m:1:5.png, beside a record with an explicit
\* caption of two spaces and a separator
C12_Witness ==
    /\ phase[MainThread] = "dead"
    /\ ResidentAt(MainThread, L1) /\ ResidentAt(MainThread, L2)
    /\ given[MainThread][L1] = Some(DefaultOptions)
    /\ renders[MainThread][Key(L1)] # <<>>
    /\ renders[MainThread][Key(L1)][1].written
    /\ renders[MainThread][Key(L1)][1].size = <<640, 480>>
    /\ renders[MainThread][Key(L1)][1].path =
           <<"p", "l", "o", "t", "s", "/", "s", "-", "m", ":", "1", ":", "5",
             ".", "p", "n", "g">>
    /\ Rec(MainThread, L2).plot.options.path =
           Some(<<"p", "l", "o", "t", "s", "/", "a", "_", "-", "_", "b",
                  ".", "p", "n", "g">>)

\* the charts drawn of record k so far, on its window and to its file
ChartsOf(t, k) ==
    {frames[t][k][n].chart : n \in 1..Len(frames[t][k])}
        \cup {renders[t][k][n].chart : n \in 1..Len(renders[t][k])}

\* C13: in every chart drawn of a record of T series, series i (from 0) has
\* hue i / T with saturation 1.0 and lightness 0.5, so every drawing of the
\* record gives a series the same color, and the T colors of a chart are
\* pairwise distinct.
C13_ColorByIndex ==
    \A t \in Threads : \A k \in DOMAIN plots[t] :
        LET T == Len(plots[t][k].plot.names)
        IN \A c \in ChartsOf(t, k) :
              /\ Len(c.series) = T
              /\ \A i \in 1..T :
                    /\ c.series[i].color.h[2] > 0
                    /\ c.series[i].color.h[1] * T = (i - 1) * c.series[i].color.h[2]
                    /\ c.series[i].color.s = 10
                    /\ c.series[i].color.l = 5
                    /\ \A d \in ChartsOf(t, k) :
                          d.series[i].color = c.series[i].color
                    /\ \A j \in 1..T :
                          i # j => c.series[i].color # c.series[j].color

\* a live record of two series drawn twice, with different points
C13_Witness ==
    /\ ResidentAt(MainThread, L2)
    /\ Len(frames[MainThread][Key(L2)]) = 2
    /\ Cardinality(ChartsOf(MainThread, Key(L2))) = 2
    /\ \A c \in ChartsOf(MainThread, Key(L2)) :
          c.series[1].color # c.series[2].color

\* C14: the registry of a thread goes from untouched to alive to dropped and
\* never back; nothing is rendered to a file before the drop, the drop runs
\* once and renders no record twice, and after it no record of the thread
\* receives an insert or changes.
C14_Lifecycle ==
    /\ [](\A t \in Threads :
            /\ phase[t] = "uninit" => plots[t] = EmptyMap
            /\ \A k \in Keys :
                  /\ Len(renders[t][k]) <= 1
                  /\ renders[t][k] # <<>> =>
                        phase[t] = "dead" /\ k \in DOMAIN plots[t])
    /\ [][\A t \in Threads :
            /\ phase[t] = "uninit" => phase'[t] \in {"uninit", "alive"}
            /\ phase[t] = "alive" => phase'[t] \in {"alive", "dead"}
            /\ phase[t] = "dead" =>
                  /\ phase'[t] = "dead"
                  /\ plots'[t] = plots[t]
                  /\ log'[t] = log[t]
                  /\ calls'[t] = calls[t]
                  /\ renders'[t] = renders[t]]_vars

\* two records that received inserts, each rendered once by the drop
C14_Witness ==
    /\ phase[MainThread] = "dead"
    /\ \A l \in {L1, L2} :
          /\ ResidentAt(MainThread, l)
          /\ Rec(MainThread, l).plot.iteration = 1
          /\ Len(renders[MainThread][Key(l)]) = 1

C16_BuffersMatchNames ==
    /\ [](\A t \in Threads, l \in Locations :
            ResidentAt(t, l) =>
                /\ Len(Rec(t, l).plot.values) = Len(Rec(t, l).plot.names)
                /\ Len(Rec(t, l).plot.names) = Len(Site(l)))
    /\ [][\A t \in Threads, l \in Locations :
            ResidentAt(t, l) =>
                LET p == plots[t][Key(l)].plot
                    q == plots'[t][Key(l)].plot
                IN /\ q.names = p.names
                   /\ Len(q.values) = Len(p.values)
                   /\ \A i \in 1..Len(p.values) :
                         IF log'[t][l] = log[t][l]
                         THEN q.values[i] = p.values[i]
                         ELSE /\ q.values[i] # <<>>
                              /\ q.values[i][Len(q.values[i])] =
                                    log'[t][l][Len(log'[t][l])].values[i]
                              /\ SubSeq(q.values[i], 1, Len(q.values[i]) - 1)
                                    \in {p.values[i], PopFront(p.values[i])}]_vars

\* a record of two series with a window of 1 after two inserts, the second
\* of which evicted a pair from each buffer
C16_Witness ==
    /\ ResidentAt(MainThread, L2)
    /\ Rec(MainThread, L2).plot.options.values = Some(1)
    /\ Len(log[MainThread][L2]) = 2
    /\ Len(Rec(MainThread, L2).plot.values) = 2
    /\ \A i \in 1..2 :
          Rec(MainThread, L2).plot.values[i] = <<log[MainThread][L2][2].values[i]>>
    /\ Rec(MainThread, L2).plot.values[1] # Rec(MainThread, L2).plot.values[2]

\* an explicit range that starts above its end
Inverted(range) == IsSome(range) /\ Unwrap(range).start > Unwrap(range).end

\* C17: no record whose options carry an x_range or a y_range with start
\* greater than end is resident in a registry.
C17_MalformedRejected ==
    \A t \in Threads : \A k \in DOMAIN plots[t] :
        /\ ~Inverted(plots[t][k].plot.options.x_range)
        /\ ~Inverted(plots[t][k].plot.options.y_range)

\* C18: between invocations and when the registry is dropped, every resident
\* record has received its first insert: its iteration counter is at least 1,
\* and every file rendered shows at least one pair in every series.
C18_NoEmptyRecordObservable ==
    \A t \in Threads : \A k \in DOMAIN plots[t] :
        /\ plots[t][k].plot.iteration >= 1
        /\ \A n \in 1..Len(renders[t][k]) :
              \A i \in 1..Len(renders[t][k][n].chart.series) :
                  renders[t][k][n].chart.series[i].points # <<>>

\* C19: each thread has a record of its own for the call site: its counter
\* counts the inserts of that thread, its buffers hold samples that thread
\* inserted and no other, the files of a thread are rendered from its own
\* records, and a step of one thread leaves the registry, the records and the
\* rendered files of every other thread as they were.
C19_PerThreadRegistry ==
    /\ [](\A t \in Threads, l \in Locations :
            /\ ResidentAt(t, l) =>
                  /\ Rec(t, l).plot.iteration = Len(log[t][l])
                  /\ Len(log[t][l]) <= calls[t][l]
                  /\ Buffered(Rec(t, l).plot, 2) \subseteq ValsOf(t)
                  /\ \A i \in 1..Len(Site(l)) :
                        IsSuffix(Rec(t, l).plot.values[i], Inserted(t, l, i))
            /\ \A n \in 1..Len(renders[t][Key(l)]) :
                  /\ ResidentAt(t, l)
                  /\ renders[t][Key(l)][n].chart = Chart(Rec(t, l).plot))
    /\ [][\A t \in Threads :
            (calls'[t] = calls[t] /\ phase'[t] = phase[t]) =>
                /\ plots'[t] = plots[t]
                /\ log'[t] = log[t]
                /\ renders'[t] = renders[t]]_vars

\* both threads have invoked the call site twice and ended: each record
\* counts 2, holds the samples of its thread, and was rendered once
C19_Witness ==
    \A t \in Threads :
        /\ phase[t] = "dead"
        /\ ResidentAt(t, L1)
        /\ Rec(t, L1).plot.iteration = 2
        /\ Len(Rec(t, L1).plot.values[1]) = 2
        /\ Len(renders[t][Key(L1)]) = 1
        /\ Ys(renders[t][Key(L1)][1].chart.series[1].points)
              = Ys(Inserted(t, L1, 1))

====
